---- MODULE Spec2Model ----
(***************************************************************************)
(* A model of the CART filesystem driver: the wire codec and bus client   *)
(* (cart_driver.c, cart_client.c), the frame cache (cart_cache.c) and the *)
(* file operations (cart_driver.c).  Every public call is one atomic      *)
(* step: the driver is single threaded and each call runs to completion.  *)
(***************************************************************************)
EXTENDS Integers, Sequences, FiniteSets, TLC

\* ---------------------------------------------------------------- bounds
\* Sizes of the device, scaled down (the controller's header gives 1024
\* bytes per frame and 64 cartridges).
CART_FRAME_SIZE == 2
CART_MAX_CARTRIDGES == 2
\* Largest cache capacity passed to set_cart_cache_size.
MaxCache == 3
\* Largest number of file records.
MaxFiles == 3
\* Largest number of slots taken from the allocation frontier.
MaxSlots == 2

\* Byte values a caller passes: 0 is the NUL byte, 1 a non-zero byte.
Bytes == {0, 1}
\* A byte the program reads without having determined it (storage that was
\* never assigned, bytes that came from outside the object meant).  It may be
\* any value; a call that branches on it takes both branches.
Indet == 2
\* Largest count passed to read and write.
MaxCount == CART_FRAME_SIZE + 1
\* File names (C strings without their terminator) and the bytes that may
\* follow a name in the heap before the first NUL byte.
Paths == {<<1>>, <<1, 1>>}
Tails == {<<>>, <<1>>}

VARIABLES
  power,                     \* "off" | "on" | "failed" | "down" | "fault"
                             \* | "again": on, the file table released
  filesystem,                \* files *filesystem; <<>> is the NULL pointer
  fileSystemSize,            \* int fileSystemSize
  currentlyLoadedCartridge,  \* int currentlyLoadedCartridge
  nextFrame,                 \* int nextFrame
  nextCartridge,             \* int nextCartridge
  myMaxFrames,               \* int myMaxFrames
  numberOfUnoccupiedFrames,  \* int numberOfUnoccupiedFrames
  myCache,                   \* cachedFrame *myCache, indexed 0..myMaxFrames-1
  cacheAlloc,                \* myCache points to storage init_cart_cache got
  ctlLoaded,                 \* controller: the cartridge loaded, -1 for none
  ctlMem,                    \* controller: the bytes of every frame
  busLog,                    \* the bus exchanges of the last call
  powerLog,                  \* the bus exchanges of poweron and poweroff
  lastCall,                  \* the last call, its arguments and its result
  held,                      \* the handles open returned, not closed since
  trip,                      \* progress of a write, seek back, read sequence
  recency                    \* keys put or got directly, latest first

vars == <<power, filesystem, fileSystemSize, currentlyLoadedCartridge,
          nextFrame, nextCartridge, myMaxFrames, numberOfUnoccupiedFrames,
          myCache, cacheAlloc, ctlLoaded, ctlMem, busLog, powerLog, lastCall,
          held, trip, recency>>

driverVars == <<filesystem, fileSystemSize, currentlyLoadedCartridge,
                nextFrame, nextCartridge>>
cacheVars == <<myMaxFrames, numberOfUnoccupiedFrames, myCache, cacheAlloc>>
ctlVars == <<ctlLoaded, ctlMem>>
ghostVars == <<held, trip, recency>>

\* ---------------------------------------------------------------- helpers
Min(a, b) == IF a < b THEN a ELSE b

\* All byte sequences of length n.
RECURSIVE SeqsOfLen(_)
SeqsOfLen(n) ==
  IF n = 0 THEN {<<>>}
  ELSE {Append(s, b) : s \in SeqsOfLen(n - 1), b \in Bytes}

ZeroFrame == [i \in 1..CART_FRAME_SIZE |-> 0]
IndetFrame == [i \in 1..CART_FRAME_SIZE |-> Indet]

\* strncpy(dst, src, n): the n bytes stored at dst.  Bytes of src are copied
\* up to its first NUL byte; the rest of the n bytes are set to NUL.  src
\* holds at least n bytes.  nul tells whether the undetermined bytes of src
\* are NUL bytes.
\* Whether strncpy(dst, src, n) meets an undetermined byte before any NUL
\* byte: then what it stores depends on that byte.
ScansIndet(src, n) ==
  \E i \in 1..n : src[i] = Indet /\ \A j \in 1..(i - 1) : src[j] # 0

StrNCpy(src, n, nul) ==
  LET nuls == {i \in 1..n : src[i] = 0 \/ (nul /\ src[i] = Indet)}
      stop == IF nuls = {} THEN n + 1
              ELSE CHOOSE i \in nuls : \A j \in nuls : i <= j
  IN [i \in 1..n |-> IF i < stop THEN src[i] ELSE 0]

\* memcpy(dst, src, n)
MemCpy(src, n) == SubSeq(src, 1, n)

\* ---------------------------------------------------------------- cache
\* The cache as one value: max is myMaxFrames, unocc is
\* numberOfUnoccupiedFrames, ent is the array myCache.
CacheOf(max, unocc, ent) == [max |-> max, unocc |-> unocc, ent |-> ent]

\* The storage malloc returns for one cachedFrame that was never written.
FreshEntry == [frame |-> 0, cartridge |-> 0, cache |-> <<>>, priority |-> 0]

\* The indices the loops of put, get and adjust_priority visit.
Visited(c) == {i \in DOMAIN c.ent : i >= c.unocc}

\* A variant of adjust_priority without the test i != exempt.
AdjustSkipsNothing(c, exempt, abovePriority) ==
  [c EXCEPT !.ent = [i \in DOMAIN c.ent |->
     IF i \in Visited(c) /\ c.ent[i].priority < abovePriority
     THEN [c.ent[i] EXCEPT !.priority = @ + 1]
     ELSE c.ent[i]]]

\* adjust_priority: the entries visited, but for exempt, whose priority is
\* below abovePriority get one more.
adjust_priority(c, exempt, abovePriority) ==
  [c EXCEPT !.ent = [i \in DOMAIN c.ent |->
     IF i \in Visited(c) /\ i # exempt /\ c.ent[i].priority < abovePriority
     THEN [c.ent[i] EXCEPT !.priority = @ + 1]
     ELSE c.ent[i]]]

\* A variant of FindKey that finds no entry.
FindKeyMisses(c, cart, frm) == -1

\* The first index, going down from myMaxFrames - 1, that holds the key;
\* -1 when the loop ends without a match.
FindKey(c, cart, frm) ==
  LET hits == {i \in Visited(c) :
                 c.ent[i].frame = frm /\ c.ent[i].cartridge = cart}
  IN IF hits = {} THEN -1 ELSE CHOOSE i \in hits : \A j \in hits : j <= i

\* A variant of FindVictim that takes the entry of lowest index.
EvictLowestIndex(c) ==
  IF Visited(c) = {} THEN -1
  ELSE CHOOSE i \in Visited(c) : \A j \in Visited(c) : i <= j

\* The first index, going down, whose priority is myMaxFrames.
FindVictim(c) ==
  LET hits == {i \in Visited(c) : c.ent[i].priority = c.max}
  IN IF hits = {} THEN -1 ELSE CHOOSE i \in hits : \A j \in hits : j <= i

\* A variant of Touch that leaves the priority of the entry at i as it is.
TouchKeepsPriority(c, i) ==
  adjust_priority(c, i, c.ent[i].priority)

\* The entry at i is given priority numberOfUnoccupiedFrames + 1 and the
\* entries that were ahead of it are aged.
Touch(c, i) ==
  LET prioritiesToAdjust == c.ent[i].priority
      c1 == [c EXCEPT !.ent[i].priority = c.unocc + 1]
  IN adjust_priority(c1, i, prioritiesToAdjust)

\* A variant of put_cart_cache that gives a key stored in an unoccupied entry
\* priority 1.
PutInsertsAtOne(c, cart, frm, buf) ==
  LET hit == FindKey(c, cart, frm)
  IN IF hit # -1
     THEN [c |-> [Touch(c, hit) EXCEPT
                    !.ent[hit].cache = MemCpy(buf, CART_FRAME_SIZE)],
           ret |-> 0]
     ELSE IF c.unocc = 0
     THEN LET v == FindVictim(c)
          IN IF v = -1 THEN [c |-> c, ret |-> -1]
             ELSE [c |-> [Touch(c, v) EXCEPT
                            !.ent[v].frame = frm,
                            !.ent[v].cartridge = cart,
                            !.ent[v].cache = MemCpy(buf, CART_FRAME_SIZE)],
                   ret |-> 0]
     ELSE LET i == c.unocc - 1
          IN [c |-> [c EXCEPT
                       !.ent[i] = [frame |-> frm, cartridge |-> cart,
                                   cache |-> MemCpy(buf, CART_FRAME_SIZE),
                                   priority |-> 1],
                       !.unocc = c.unocc - 1],
              ret |-> 0]

\* put_cart_cache: the cache after the call and the value returned.
put_cart_cache(c, cart, frm, buf) ==
  LET hit == FindKey(c, cart, frm)
  IN IF hit # -1
     THEN [c |-> [Touch(c, hit) EXCEPT
                    !.ent[hit].cache = MemCpy(buf, CART_FRAME_SIZE)],
           ret |-> 0]
     ELSE IF c.unocc = 0
     THEN LET v == FindVictim(c)
          IN IF v = -1 THEN [c |-> c, ret |-> -1]
             ELSE [c |-> [Touch(c, v) EXCEPT
                            !.ent[v].frame = frm,
                            !.ent[v].cartridge = cart,
                            !.ent[v].cache = MemCpy(buf, CART_FRAME_SIZE)],
                   ret |-> 0]
     ELSE LET i == c.unocc - 1
          IN [c |-> [c EXCEPT
                       !.ent[i] = [frame |-> frm, cartridge |-> cart,
                                   cache |-> MemCpy(buf, CART_FRAME_SIZE),
                                   priority |-> c.unocc],
                       !.unocc = c.unocc - 1],
              ret |-> 0]

\* A variant of get_cart_cache that leaves the priorities as they are.
GetKeepsOrder(c, cart, frm) ==
  LET hit == FindKey(c, cart, frm)
  IN IF hit # -1
     THEN [c |-> c, found |-> TRUE, data |-> c.ent[hit].cache]
     ELSE [c |-> c, found |-> FALSE, data |-> <<>>]

\* get_cart_cache: the cache after the call, whether the pointer returned is
\* not NULL, and the bytes it points to.
get_cart_cache(c, cart, frm) ==
  LET hit == FindKey(c, cart, frm)
  IN IF hit # -1
     THEN [c |-> Touch(c, hit), found |-> TRUE, data |-> c.ent[hit].cache]
     ELSE [c |-> c, found |-> FALSE, data |-> <<>>]

\* ---------------------------------------------------------------- codec
\* A 64-bit register word is kept as four 16-bit limbs, most significant
\* first: w[1] is bits 63..48, w[4] is bits 15..0.
Pow15 == 2^15

\* A variant of generateBusRequest that shifts ctOne by 32 and fmOne by 16.
GenerateByteAligned(regstate) ==
  << regstate.kyOne * 256, regstate.ctOne, regstate.fmOne, 0 >>

\* generateBusRequest: kyOne << 56, plus ctOne << 31, plus fmOne << 15.
generateBusRequest(regstate) ==
  << regstate.kyOne * 256,
     regstate.ctOne \div 2,
     (regstate.ctOne % 2) * Pow15 + regstate.fmOne \div 2,
     (regstate.fmOne % 2) * Pow15 >>

\* readBusResponse: the masks 0xff00000000000000, 0x7fff80000000,
\* 0x7fff8000 and 0x800000000000, each shifted down.
readBusResponse(w) ==
  [kyOne |-> w[1] \div 256,
   ctOne |-> (w[2] % Pow15) * 2 + w[3] \div Pow15,
   fmOne |-> (w[3] % Pow15) * 2 + w[4] \div Pow15,
   rt    |-> w[2] \div Pow15]

\* A variant of htonll64 that sends the least significant byte first.
LeastByteFirst(w) ==
  << w[4] % 256, w[4] \div 256, w[3] % 256, w[3] \div 256,
     w[2] % 256, w[2] \div 256, w[1] % 256, w[1] \div 256 >>

\* htonll64 and ntohll64: the eight bytes of the word, most significant
\* first, and back.
htonll64(w) ==
  << w[1] \div 256, w[1] % 256, w[2] \div 256, w[2] % 256,
     w[3] \div 256, w[3] % 256, w[4] \div 256, w[4] % 256 >>

ntohll64(b) ==
  << b[1] * 256 + b[2], b[3] * 256 + b[4],
     b[5] * 256 + b[6], b[7] * 256 + b[8] >>

\* ---------------------------------------------------------------- controller
\* The controller at the other end of the socket.  It holds the cartridge
\* loaded and the bytes of every frame.
CART_CARTRIDGE_SIZE == CART_FRAME_SIZE
CtlCarts == 0..(CART_MAX_CARTRIDGES - 1)
CtlFrames == 0..(CART_CARTRIDGE_SIZE - 1)

\* Whether the controller accepts the request.
CtlAccepts(ctl, op, cart, frame) ==
  CASE op = 2 -> cart \in CtlCarts
    [] op = 1 -> ctl.loaded \in CtlCarts
    [] op \in {3, 4} -> ctl.loaded \in CtlCarts /\ frame \in CtlFrames
    [] OTHER -> op \in {0, 5}

\* The controller after a request it accepted.  received is the payload that
\* followed a WRITE request on the socket.
CtlApply(ctl, op, cart, frame, received) ==
  CASE op = 2 -> [ctl EXCEPT !.loaded = cart]
    [] op = 1 -> [ctl EXCEPT !.mem[ctl.loaded] =
                    [f \in CtlFrames |-> ZeroFrame]]
    [] op = 4 -> [ctl EXCEPT !.mem[ctl.loaded][frame] = received]
    [] OTHER -> ctl

\* ---------------------------------------------------------------- bus
\* The state one call threads through its bus exchanges: the controller,
\* the exchanges issued so far, the number of the exchange that fails (the
\* controller answers it with a non-zero return code, or the socket fails;
\* 0: none), regstate.rt after the last exchange and the payload the last
\* READ delivered.  An entry of log holds the request as the controller
\* decoded it, the return code, the cartridge the controller had loaded when
\* the request came (loaded) and, for a READ or WRITE, the cartridge of the
\* slot the driver issued it for (want; -1 for the other requests).
BusStart(ctl, failAt) ==
  [ctl |-> ctl, log |-> <<>>, failAt |-> failAt, rt |-> 0, data |-> <<>>]

\* What the WR branch of client_cart_bus_request puts on the socket after
\* the request word: CART_FRAME_SIZE bytes read at &buf, the address of the
\* pointer, not the bytes buf points to.
ClientWritePayload(buf) == IndetFrame

\* The word the controller sends back: the request word with bit 47, the
\* return code, set when the exchange fails.
AnswerWord(req, fails) ==
  << req.kyOne * 256,
     (IF fails THEN Pow15 ELSE 0) + req.ctOne \div 2,
     (req.ctOne % 2) * Pow15 + req.fmOne \div 2,
     (req.fmOne % 2) * Pow15 >>

\* regstate.rt once readBusResponse has decoded the answer.
ResponseRt(req, fails) ==
  readBusResponse(ntohll64(htonll64(AnswerWord(req, fails)))).rt

\* The exchange of the request req, as the controller decoded it, that
\* fails or not.
Answered(b, req, buf, fails) ==
  [b EXCEPT
     !.ctl = IF fails THEN @
             ELSE CtlApply(@, req.kyOne, req.ctOne, req.fmOne,
                           IF req.kyOne = 4 THEN ClientWritePayload(buf)
                           ELSE <<>>),
     !.log = Append(@, [op |-> req.kyOne, cart |-> req.ctOne,
                        frame |-> req.fmOne, rt |-> ResponseRt(req, fails),
                        loaded |-> b.ctl.loaded, want |-> -1]),
     !.rt = ResponseRt(req, fails),
     !.data = IF req.kyOne = 3 /\ ~fails
              THEN b.ctl.mem[b.ctl.loaded][req.fmOne]
              ELSE @]

\* The exchange fails when it is the one chosen to fail or when the
\* controller refuses the request.
Received(b, req, buf) ==
  Answered(b, req, buf,
           (Len(b.log) + 1 = b.failAt)
             \/ ~CtlAccepts(b.ctl, req.kyOne, req.ctOne, req.fmOne))

\* runBusRequest, with client_cart_bus_request and the controller's answer:
\* the registers are stored in regstate, packed by generateBusRequest, sent
\* in network order and decoded by the controller.
runBusRequest(b, kyOne, ctOne, fmOne, buf) ==
  Received(b,
           readBusResponse(ntohll64(htonll64(generateBusRequest(
             [kyOne |-> kyOne % 256, ctOne |-> ctOne % 65536,
              fmOne |-> fmOne % 65536, rt |-> 0])))),
           buf)

\* ---------------------------------------------------------------- files
\* One struct files.  fileName holds the strlen(path) bytes copied from the
\* path; tail holds the heap bytes that follow them up to the first NUL
\* byte (cart_open stores no terminator).  locInit tells whether
\* location.frames and the first element of the two arrays were ever
\* assigned (cart_open leaves them as malloc returned them).
NewFile(path, tail, handle) ==
  [fileName |-> path, tail |-> tail, length |-> 0, filePointer |-> 0,
   locInit |-> FALSE, frames |-> 0,
   occupiedFrames |-> <<0>>, occupiedCartridges |-> <<0>>,
   fileHandle |-> handle]

\* strcmp(path, filesystem[i].fileName) == 0
StrCmpEqual(path, file) == path = file.fileName \o file.tail

\* The records the loops over i = 0 .. fileSystemSize visit (1-based here).
Scanned(fs, size) == {i \in 1..Len(fs) : i <= size + 1}

\* The index the scan for a handle stops at, 0 when it finds none.
FindHandle(fs, size, fd) ==
  LET hits == {i \in Scanned(fs, size) : fs[i].fileHandle = fd}
  IN IF hits = {} THEN 0 ELSE CHOOSE i \in hits : \A j \in hits : i <= j

\* The first record whose name compares equal to path, 0 when none does.
FindName(fs, size, path) ==
  LET hits == {i \in Scanned(fs, size) : StrCmpEqual(path, fs[i])}
  IN IF hits = {} THEN 0 ELSE CHOOSE i \in hits : \A j \in hits : i <= j

\* A variant of FreshHandle whose search starts at 0.
FreshHandleFromZero(fs, idx) ==
  CHOOSE h \in 0..(Len(fs) + 1) :
    /\ \A i \in idx : fs[i].fileHandle # h
    /\ \A g \in 0..(h - 1) : \E i \in idx : fs[i].fileHandle = g

\* The do-while loops of cart_open: the smallest handle from 1 up that none
\* of the records in idx holds.
FreshHandle(fs, idx) ==
  CHOOSE h \in 1..(Len(fs) + 1) :
    /\ \A i \in idx : fs[i].fileHandle # h
    /\ \A g \in 1..(h - 1) : \E i \in idx : fs[i].fileHandle = g

\* The record that receives the handle when a closed file is opened again.
ReopenTarget(i, size) == size + 1

\* cart_open: the records, fileSystemSize and the value returned.  tail is
\* what follows the name in the storage of a record this call creates.
cart_open(fs, size, path, tail) ==
  IF fs = <<>>
  THEN [fs |-> <<NewFile(path, tail, 1)>>, size |-> size, ret |-> 1]
  ELSE LET i == FindName(fs, size, path)
       IN IF i # 0
          THEN IF fs[i].fileHandle > 0
               THEN [fs |-> fs, size |-> size, ret |-> -1]
               ELSE LET h == FreshHandle(fs, Scanned(fs, size))
                        t == ReopenTarget(i, size)
                    IN [fs |-> [[fs EXCEPT ![i].filePointer = 0]
                                  EXCEPT ![t].fileHandle = h],
                        size |-> size, ret |-> h]
          ELSE LET h == FreshHandle(fs, Scanned(fs, size))
               IN [fs |-> Append(fs, NewFile(path, tail, h)),
                   size |-> size + 1, ret |-> h]

\* A variant of cart_close that also empties the file.
CloseTruncates(fs, size, fd) ==
  LET i == FindHandle(fs, size, fd)
  IN IF i = 0 THEN [fs |-> fs, ret |-> -1]
     ELSE IF fs[i].fileHandle = 0 THEN [fs |-> fs, ret |-> -1]
     ELSE [fs |-> [fs EXCEPT ![i].fileHandle = 0, ![i].filePointer = 0,
                             ![i].length = 0],
           ret |-> 0]

\* cart_close
cart_close(fs, size, fd) ==
  LET i == FindHandle(fs, size, fd)
  IN IF i = 0 THEN [fs |-> fs, ret |-> -1]
     ELSE IF fs[i].fileHandle = 0 THEN [fs |-> fs, ret |-> -1]
     ELSE [fs |-> [fs EXCEPT ![i].fileHandle = 0, ![i].filePointer = 0],
           ret |-> 0]

\* A variant of SeekRefuses that refuses no location.
SeekAcceptsAny(file, loc) == FALSE

\* The test of cart_seek that refuses a location: length < loc.
SeekRefuses(file, loc) == file.length < loc

\* cart_seek
cart_seek(fs, size, fd, loc) ==
  LET i == FindHandle(fs, size, fd)
  IN IF i = 0 THEN [fs |-> fs, ret |-> -1]
     ELSE IF fs[i].fileHandle = 0 THEN [fs |-> fs, ret |-> -1]
     ELSE IF SeekRefuses(fs[i], loc) THEN [fs |-> fs, ret |-> -1]
     ELSE [fs |-> [fs EXCEPT ![i].filePointer = loc], ret |-> 0]

\* ---------------------------------------------------------------- read, write
\* Values a read of storage that was never assigned, or that lies past the
\* end of an array, may deliver: an int, a (cartridge, frame) pair.
GarbageInts == {-1, 0, 1}
GarbageSlots == {<<0, 0>>, <<CART_MAX_CARTRIDGES, 0>>}

\* location.occupiedCartridges[k] and location.occupiedFrames[k], k from 0.
SlotAt(file, k, g) ==
  IF file.locInit /\ k < Len(file.occupiedFrames)
  THEN <<file.occupiedCartridges[k + 1], file.occupiedFrames[k + 1]>>
  ELSE g.slot

\* location.frames
FramesOf(file, g) == IF file.locInit THEN file.frames ELSE g.int

\* The bytes of a list of frames, one after the other.
RECURSIVE Flatten(_)
Flatten(frames) ==
  IF frames = <<>> THEN <<>> ELSE Head(frames) \o Flatten(Tail(frames))

\* n copies of a frame.
Repeat(frame, n) == [i \in 1..n |-> frame]

\* What a call threads through its steps: currentlyLoadedCartridge (cur),
\* the cache, the bus, the frames copied to localBuf so far (local) and
\* whether no exchange has failed (ok).  After a failed exchange the call
\* returns -1, so every later step leaves the thread as it is.
Thread(m) ==
  [cur |-> m.cur, cache |-> m.cache, bus |-> m.bus, local |-> <<>>,
   ok |-> TRUE]

\* The driver's state once the call has gone through its steps.
Merge(m, st) == [m EXCEPT !.cur = st.cur, !.cache = st.cache, !.bus = st.bus]

\* What a call hands back: the driver's state with the value returned (ret),
\* the bytes copied to the caller's buffer (out), whether the call ended in
\* a memory fault, and whether a strncpy met an undetermined byte.
Result(m, ret, out, fault, indet) ==
  m @@ [ret |-> ret, out |-> out, fault |-> fault, indet |-> indet]

\* regstate.rt != 0 after an exchange ends the call.
Exchanged(st, b) ==
  IF b.rt # 0 THEN [st EXCEPT !.bus = b, !.ok = FALSE]
  ELSE [st EXCEPT !.bus = b]

\* One runBusRequest of the call.
BusOp(st, kyOne, ctOne, fmOne, buf) ==
  IF ~st.ok THEN st
  ELSE Exchanged(st, runBusRequest(st.bus, kyOne, ctOne, fmOne, buf))

\* currentlyLoadedCartridge = cart, after the LOAD that succeeded.
Loaded(st, cart) == IF st.ok THEN [st EXCEPT !.cur = cart] ELSE st

\* A variant of LoadIfNeeded that issues no LOAD.
LoadSkipped(st, cart) == Loaded(st, cart)

\* "Load cartridge file is located in if it isn't already loaded".
LoadIfNeeded(st, cart) ==
  IF ~st.ok \/ st.cur = cart THEN st
  ELSE Loaded(BusOp(st, 2, cart, 0, <<>>), cart)

\* The READ or WRITE just issued was issued for a frame of cartridge cart.
ForCartridge(st, cart) ==
  IF st.bus.log # <<>> /\ st.bus.log[Len(st.bus.log)].op \in {3, 4}
  THEN [st EXCEPT !.bus.log[Len(st.bus.log)].want = cart]
  ELSE st

\* The frame READ delivered, copied to localBuf.
Delivered(st) ==
  IF st.ok THEN [st EXCEPT !.local = Append(@, st.bus.data)] ELSE st

\* A variant of FetchFrom that takes every frame from the bus.
FetchAlwaysBus(st, slot, r) ==
  Delivered(ForCartridge(BusOp(LoadIfNeeded(st, slot[1]), 3, 0, slot[2],
                               <<>>),
                         slot[1]))

\* One frame copied to localBuf: from the cache (r is what get_cart_cache
\* gave), or with LOAD and READ from the bus.  A frame read from the bus is
\* not put in the cache.
FetchFrom(st, slot, r) ==
  IF r.found
  THEN [st EXCEPT !.cache = r.c, !.local = Append(@, r.data)]
  ELSE Delivered(ForCartridge(BusOp(LoadIfNeeded(st, slot[1]), 3, 0,
                                    slot[2], <<>>),
                              slot[1]))

FetchOne(st, slot) ==
  FetchFrom(st, slot, get_cart_cache(st.cache, slot[1], slot[2]))

\* The loop that copies frames start + i, i = from .. last, to localBuf.
RECURSIVE FetchFrames(_, _, _, _, _, _)
FetchFrames(st, file, start, i, last, g) ==
  IF i > last \/ ~st.ok THEN st
  ELSE FetchFrames(FetchOne(st, SlotAt(file, i + start, g)),
                   file, start, i + 1, last, g)

\* A variant of BytesToRead that ignores the length of the file.
ReadAlwaysCount(file, count) == count

\* The number of bytes cart_read copies and returns.
BytesToRead(file, count) ==
  IF file.filePointer + count > file.length
  THEN file.length - file.filePointer
  ELSE count

\* The end of cart_read: strncpy of n bytes to buf and the new filePointer.
ReadCopy(m, i, n, bytes, nul) ==
  Result([m EXCEPT !.fs[i].filePointer = @ + n], n, StrNCpy(bytes, n, nul),
         FALSE, ScansIndet(bytes, n))

\* localBuf of frames frames: the frames the loop copied, then storage as
\* malloc returned it.
LocalBuf(local, frames) ==
  Flatten(local \o Repeat(IndetFrame, frames - Len(local)))

\* cart_read after its loop.
ReadFetched(m, i, file, count, g, st) ==
  IF ~st.ok THEN Result(Merge(m, st), -1, <<>>, FALSE, FALSE)
  ELSE ReadCopy(Merge(m, st), i, BytesToRead(file, count),
                SubSeq(LocalBuf(st.local,
                                (file.filePointer + count)
                                     \div CART_FRAME_SIZE
                                  - file.filePointer \div CART_FRAME_SIZE
                                  + 1),
                       (file.filePointer % CART_FRAME_SIZE) + 1,
                       (file.filePointer % CART_FRAME_SIZE)
                         + BytesToRead(file, count)),
                g.nul)

\* The last i of the loop of cart_read, which runs over
\* i <= endFrameIndex - startFrameIndex && i <= location.frames.
LastFetched(file, count, g) ==
  Min((file.filePointer + count) \div CART_FRAME_SIZE
        - file.filePointer \div CART_FRAME_SIZE,
      FramesOf(file, g))

\* cart_read of the record at i.
ReadFile(m, i, file, count, g) ==
  ReadFetched(m, i, file, count, g,
              FetchFrames(Thread(m), file,
                          file.filePointer \div CART_FRAME_SIZE, 0,
                          LastFetched(file, count, g), g))

\* A call with a handle that no record holds, or that a closed record
\* holds, returns -1.
BadHandle(m, i) == i = 0 \/ m.fs[i].fileHandle = 0

Refused(m) == Result(m, -1, <<>>, FALSE, FALSE)

Faulted(m) == Result(m, -1, <<>>, TRUE, FALSE)

ReadAt(m, i, count, g) ==
  IF BadHandle(m, i) THEN Refused(m) ELSE ReadFile(m, i, m.fs[i], count, g)

\* cart_read.  m holds the records (fs), fileSystemSize (size),
\* currentlyLoadedCartridge (cur), the frontier (nf, nc), the cache and the
\* bus; g the values that reads of unassigned storage deliver.
cart_read(m, fd, count, g) ==
  IF m.fs = <<>> THEN Faulted(m)
  ELSE ReadAt(m, FindHandle(m.fs, m.size, fd), count, g)

\* A variant of Advance that leaves the frontier where it is.
FrontierKept(nf, nc) == [nf |-> nf, nc |-> nc]

\* The allocation frontier after one slot is taken: nextFrame++, and the
\* step to the next cartridge when nextFrame == CART_FRAME_SIZE.
Advance(nf, nc) ==
  IF nf + 1 = CART_FRAME_SIZE THEN [nf |-> 0, nc |-> nc + 1]
  ELSE [nf |-> nf + 1, nc |-> nc]

\* put_cart_cache as cart_write calls it: the value returned is not looked
\* at.
Cached(st, slot, frame) ==
  IF ~st.ok THEN st
  ELSE [st EXCEPT !.cache = put_cart_cache(@, slot[1], slot[2], frame).c]

\* One frame written: LOAD when needed, put_cart_cache, WRITE.
StoreOne(st, slot, frame) ==
  ForCartridge(BusOp(Cached(LoadIfNeeded(st, slot[1]), slot, frame),
                     4, 0, slot[2], frame),
               slot[1])

\* The loop that writes frames start + i, i = from .. last, of localBuf,
\* each through strncpy(sizeOfFrameBuf, &localBuf[i * CART_FRAME_SIZE],
\* CART_FRAME_SIZE).
RECURSIVE StoreFrames(_, _, _, _, _, _, _)
StoreFrames(st, file, start, i, last, localBuf, g) ==
  IF i > last \/ ~st.ok THEN st
  ELSE StoreFrames(
         StoreOne(st, SlotAt(file, i + start, g),
                  StrNCpy(SubSeq(localBuf, i * CART_FRAME_SIZE + 1,
                                 (i + 1) * CART_FRAME_SIZE),
                          CART_FRAME_SIZE, g.nul)),
         file, start, i + 1, last, localBuf, g)

\* The last frame index cart_write works on.
EndFrameIndex(fp, count) ==
  IF (fp + count) % CART_FRAME_SIZE # 0
  THEN (fp + count) \div CART_FRAME_SIZE
  ELSE fp \div CART_FRAME_SIZE

\* The records and the frontier once the first write has taken its slot and
\* set length and filePointer to count.
FirstSlot(m, i, count) ==
  [m EXCEPT !.fs[i].locInit = TRUE,
            !.fs[i].frames = 0,
            !.fs[i].occupiedFrames[1] = m.nf,
            !.fs[i].occupiedCartridges[1] = m.nc,
            !.fs[i].length = count,
            !.fs[i].filePointer = count,
            !.nf = Advance(m.nf, m.nc).nf,
            !.nc = Advance(m.nf, m.nc).nc]

\* The end of a write whose steps are done: -1 after a failed exchange.
Written(m, st, count, indet) ==
  Result(Merge(m, st), IF st.ok THEN count ELSE -1, <<>>, FALSE, indet)

\* "Code used for writing to the file's first frame" (length == 0):
\* strncpy(sizeOfFrameBuf, buf, count) into the frame on the stack, whose
\* other bytes stay as they were; count > CART_FRAME_SIZE writes past it.
WriteFirst(m, i, buf, count, g) ==
  IF count > CART_FRAME_SIZE /\ g.crash THEN Faulted(m)
  ELSE Written(FirstSlot(m, i, count),
               StoreOne(Thread(m), <<m.nc, m.nf>>,
                        StrNCpy(buf, Min(count, CART_FRAME_SIZE), g.nul)
                          \o SubSeq(IndetFrame,
                                    Min(count, CART_FRAME_SIZE) + 1,
                                    CART_FRAME_SIZE)),
               count, FALSE)

\* Whether the write takes one more slot.
Grows(file, count) ==
  file.filePointer + count > (file.frames + 1) * CART_FRAME_SIZE

\* The records and the frontier once the write has taken the slot it may
\* take: at most one.
Grown(m, i, count) ==
  IF Grows(m.fs[i], count)
  THEN [m EXCEPT !.fs[i].frames = @ + 1,
                 !.fs[i].occupiedFrames = Append(@, m.nf),
                 !.fs[i].occupiedCartridges = Append(@, m.nc),
                 !.nf = Advance(m.nf, m.nc).nf,
                 !.nc = Advance(m.nf, m.nc).nc]
  ELSE m

\* localBuf after strncpy(&localBuf[off], buf, count); bytes that fall past
\* the end of localBuf are not kept.
Overlay(fetched, off, copied) ==
  [k \in 1..Len(fetched) |->
     IF k > off /\ k <= off + Len(copied) THEN copied[k - off]
     ELSE fetched[k]]

\* Whether a strncpy of the store loop meets an undetermined byte.
StoreScansIndet(localBuf) ==
  \E k \in 0..(Len(localBuf) \div CART_FRAME_SIZE - 1) :
    ScansIndet(SubSeq(localBuf, k * CART_FRAME_SIZE + 1,
                      (k + 1) * CART_FRAME_SIZE), CART_FRAME_SIZE)

\* A variant of LengthAfterWrite that never extends the file.
LengthKept(length, fp, count) == length

\* The length after a write of count bytes at fp: extended when the write
\* ends past it.
LengthAfterWrite(length, fp, count) ==
  IF length < fp + count THEN length + (count - (length - fp)) ELSE length

\* The end of the write: length and filePointer.
WriteEnd(m, i, fp, length, count, st, indet) ==
  IF ~st.ok THEN Written(m, st, count, indet)
  ELSE [Written(m, st, count, indet) EXCEPT
          !.fs[i].length = LengthAfterWrite(length, fp, count),
          !.fs[i].filePointer = fp + count]

\* The store loop over localBuf.
WriteStore(m, i, fp, length, count, g, st, localBuf) ==
  WriteEnd(m, i, fp, length, count,
           StoreFrames(st, m.fs[i], fp \div CART_FRAME_SIZE, 0,
                       EndFrameIndex(fp, count) - fp \div CART_FRAME_SIZE,
                       localBuf, g),
           StoreScansIndet(localBuf))

\* After the loop that fills localBuf: the strncpy of the caller's bytes,
\* which writes past localBuf when the write ends beyond the last frame
\* worked on.
WriteFetched(m, i, fp, length, buf, count, g, st) ==
  IF ~st.ok THEN Written(m, st, count, FALSE)
  ELSE IF /\ fp + count > (EndFrameIndex(fp, count) + 1) * CART_FRAME_SIZE
          /\ g.crash
  THEN Faulted(Merge(m, st))
  ELSE WriteStore(m, i, fp, length, count, g, st,
                  Overlay(Flatten(st.local), fp % CART_FRAME_SIZE,
                          StrNCpy(buf, count, g.nul)))

\* "Code used for writing to the file's exists frames and additionally need
\* frames" (length > 0); m has the slot the write may have taken.
WriteInto(m, i, fp, length, buf, count, g) ==
  WriteFetched(m, i, fp, length, buf, count, g,
               FetchFrames(Thread(m), m.fs[i], fp \div CART_FRAME_SIZE, 0,
                           EndFrameIndex(fp, count)
                             - fp \div CART_FRAME_SIZE,
                           g))

WriteMore(m, i, buf, count, g) ==
  WriteInto(Grown(m, i, count), i, m.fs[i].filePointer, m.fs[i].length,
            buf, count, g)

WriteAt(m, i, buf, count, g) ==
  IF BadHandle(m, i) THEN Refused(m)
  ELSE IF m.fs[i].length = 0 THEN WriteFirst(m, i, buf, count, g)
  ELSE WriteMore(m, i, buf, count, g)

\* cart_write.  nf and nc are nextFrame and nextCartridge.
cart_write(m, fd, buf, count, g) ==
  IF m.fs = <<>> THEN Faulted(m)
  ELSE WriteAt(m, FindHandle(m.fs, m.size, fd), buf, count, g)

\* ---------------------------------------------------------------- power
\* init_cart_cache: malloc of myMaxFrames entries; nothing else is assigned.
init_cart_cache(c) ==
  [c EXCEPT !.ent = [i \in 0..(c.max - 1) |-> FreshEntry]]

\* The loop of cart_poweron over the cartridges: LOAD i, ZERO, and
\* currentlyLoadedCartridge = i.
RECURSIVE ZeroCartridges(_, _)
ZeroCartridges(st, i) ==
  IF i >= CART_MAX_CARTRIDGES \/ ~st.ok THEN st
  ELSE ZeroCartridges(
         Loaded(BusOp(BusOp(st, 2, i, 0, <<>>), 1, 0, 0, <<>>), i), i + 1)

\* The end of cart_poweron: init_cart_cache when no exchange failed.
PoweredOn(m, st) ==
  IF ~st.ok THEN Merge(m, st) @@ [ret |-> -1, alloc |-> FALSE]
  ELSE [Merge(m, st) EXCEPT !.cache = init_cart_cache(@)]
         @@ [ret |-> 0, alloc |-> TRUE]

\* cart_poweron: INIT, then the loop.
cart_poweron(m) ==
  PoweredOn(m, ZeroCartridges(BusOp(Thread(m), 0, 0, 0, <<>>), 0))

\* The records after the loop of cart_poweroff.
AllClosed(fs, size) ==
  [i \in 1..Len(fs) |->
     IF i \in Scanned(fs, size) THEN [fs[i] EXCEPT !.fileHandle = 0]
     ELSE fs[i]]

\* The end of cart_poweroff: close_cart_cache when POWEROFF succeeded.
PoweredOff(m, b) ==
  [m EXCEPT !.fs = AllClosed(m.fs, m.size), !.bus = b]
    @@ [ret |-> IF b.rt # 0 THEN -1 ELSE 0, alloc |-> b.rt # 0,
        fault |-> FALSE]

\* cart_poweroff: the loop over the records stores 0 in every fileHandle
\* (through the NULL pointer when no file was ever opened) and frees the
\* storage; then POWEROFF and close_cart_cache.
cart_poweroff(m) ==
  IF m.fs = <<>> THEN m @@ [ret |-> -1, alloc |-> TRUE, fault |-> TRUE]
  ELSE PoweredOff(m, runBusRequest(m.bus, 5, 0, 0, <<>>))

\* ---------------------------------------------------------------- steps
Fds == 0..MaxFiles
Counts == 0..MaxCount
MaxLength == MaxSlots * CART_FRAME_SIZE + 1

\* The driver's state as one value, for a call whose exchange number failAt
\* fails.
Machine(failAt) ==
  [fs |-> filesystem, size |-> fileSystemSize,
   cur |-> currentlyLoadedCartridge, nf |-> nextFrame, nc |-> nextCartridge,
   cache |-> CacheOf(myMaxFrames, numberOfUnoccupiedFrames, myCache),
   bus |-> BusStart([loaded |-> ctlLoaded, mem |-> ctlMem], failAt)]

\* buf holds the bytes the caller passed to a write.
Call(op, arg1, arg2, ret, out) ==
  [op |-> op, arg1 |-> arg1, arg2 |-> arg2, ret |-> ret, out |-> out,
   buf |-> <<>>]

\* The state after a call that ended with the driver's state r.
Commit(r) ==
  /\ filesystem' = r.fs
  /\ fileSystemSize' = r.size
  /\ currentlyLoadedCartridge' = r.cur
  /\ nextFrame' = r.nf
  /\ nextCartridge' = r.nc
  /\ myMaxFrames' = r.cache.max
  /\ numberOfUnoccupiedFrames' = r.cache.unocc
  /\ myCache' = r.cache.ent
  /\ ctlLoaded' = r.bus.ctl.loaded
  /\ ctlMem' = r.bus.ctl.mem
  /\ busLog' = r.bus.log

NoTrip == [stage |-> 0, fd |-> 0, buf |-> <<>>]

Init ==
  /\ power = "off"
  /\ filesystem = <<>>
  /\ fileSystemSize = 0
  /\ currentlyLoadedCartridge = 0
  /\ nextFrame = 0
  /\ nextCartridge = 0
  /\ myMaxFrames = 0
  /\ numberOfUnoccupiedFrames = 0
  /\ myCache = <<>>
  /\ cacheAlloc = FALSE
  /\ ctlLoaded = -1
  /\ ctlMem = [c \in CtlCarts |-> [f \in CtlFrames |-> IndetFrame]]
  /\ busLog = <<>>
  /\ powerLog = <<>>
  /\ lastCall = Call("none", 0, 0, 0, <<>>)
  /\ held = {}
  /\ trip = NoTrip
  /\ recency = <<>>

\* set_cart_cache_size(n), called before the cache is initialized.
SetCacheSize(n) ==
  /\ power = "off"
  /\ ~cacheAlloc
  /\ myMaxFrames' = n
  /\ numberOfUnoccupiedFrames' = n
  /\ lastCall' = Call("set_cart_cache_size", n, 0, 0, <<>>)
  /\ UNCHANGED <<power, driverVars, myCache, cacheAlloc, ctlVars, busLog,
                 powerLog, ghostVars>>

\* ------------------------------------------------- the cache, used alone
CacheKeys == {<<c, 0>> : c \in 0..MaxCache}
CachePayloads == {ZeroFrame, [i \in 1..CART_FRAME_SIZE |-> 1]}

\* The keys without key, in their order.
Without(keys, key) ==
  LET F[n \in 0..Len(keys)] ==
        IF n = 0 THEN <<>>
        ELSE IF keys[n] = key THEN F[n - 1] ELSE Append(F[n - 1], keys[n])
  IN F[Len(keys)]

\* The keys a cache of max entries holds once key was used: key first, the
\* least recently used one dropped when there is one too many.
Used(keys, key, max) ==
  LET all == <<key>> \o Without(keys, key)
  IN SubSeq(all, 1, Min(Len(all), max))

\* What the array malloc returns may hold, c.ent being what the block freed
\* last held: entries never written or, where that block had the size asked
\* for, what it held.  init_cart_cache assigns none of them.
Allocated(c) ==
  {init_cart_cache(c).ent}
    \cup (IF DOMAIN c.ent = 0..(c.max - 1) THEN {c.ent} ELSE {})

\* init_cart_cache, called while no array is allocated.
CacheInit ==
  /\ power = "off"
  /\ ~cacheAlloc
  /\ myCache' \in Allocated(CacheOf(myMaxFrames, numberOfUnoccupiedFrames,
                                    myCache))
  /\ cacheAlloc' = TRUE
  /\ lastCall' = Call("init_cart_cache", 0, 0, 0, <<>>)
  /\ recency' = <<>>
  /\ UNCHANGED <<power, driverVars, myMaxFrames, numberOfUnoccupiedFrames,
                 ctlVars, busLog, powerLog, held, trip>>

\* close_cart_cache: free(myCache).  myCache keeps what the freed block
\* held.
CacheClose ==
  /\ power = "off"
  /\ cacheAlloc
  /\ cacheAlloc' = FALSE
  /\ lastCall' = Call("close_cart_cache", 0, 0, 0, <<>>)
  /\ UNCHANGED <<power, driverVars, myMaxFrames, numberOfUnoccupiedFrames,
                 myCache, ctlVars, busLog, powerLog, ghostVars>>

\* The cache after a call that ended with r.
CacheCommit(r) ==
  /\ myCache' = r.c.ent
  /\ numberOfUnoccupiedFrames' = r.c.unocc

PutDone(key, buf, r) ==
  /\ CacheCommit(r)
  /\ lastCall' = Call("put", key, buf, r.ret, <<>>)

CachePut(key, buf) ==
  /\ power = "off"
  /\ cacheAlloc
  /\ PutDone(key, buf,
             put_cart_cache(
               CacheOf(myMaxFrames, numberOfUnoccupiedFrames, myCache),
               key[1], key[2], buf))
  /\ recency' = Used(recency, key, myMaxFrames)
  /\ UNCHANGED <<power, driverVars, myMaxFrames, cacheAlloc, ctlVars,
                 busLog, powerLog, held, trip>>

GetDone(key, r) ==
  /\ CacheCommit(r)
  /\ lastCall' = Call("get", key, 0, IF r.found THEN 0 ELSE -1, r.data)

CacheGet(key) ==
  /\ power = "off"
  /\ cacheAlloc
  /\ GetDone(key,
             get_cart_cache(
               CacheOf(myMaxFrames, numberOfUnoccupiedFrames, myCache),
               key[1], key[2]))
  /\ recency' = IF \E n \in 1..Len(recency) : recency[n] = key
                THEN Used(recency, key, myMaxFrames) ELSE recency
  /\ UNCHANGED <<power, driverVars, myMaxFrames, cacheAlloc, ctlVars,
                 busLog, powerLog, held, trip>>

\* ------------------------------------------------------- the codec alone
\* Register values a request is built from: the ends of each range, the
\* values around the bit that crosses a 16-bit boundary, and those of the
\* worked example of the interface description.
CodecKeys == {0, 1, 2, 3, 4, 5, 255}
CodecCarts == {0, 1, 2, 4660, 32767, 32768, 65535}
CodecFrames == {0, 1, 22136, 32767, 32768, 65535}

\* What follows from one request word: its bytes in network order and the
\* registers read back from it.
Encoded(kyOne, ctOne, fmOne, word) ==
  Call("encode", <<kyOne, ctOne, fmOne>>, htonll64(word),
       readBusResponse(word).rt,
       <<readBusResponse(word).kyOne, readBusResponse(word).ctOne,
         readBusResponse(word).fmOne>>)

\* runBusRequest up to the socket: the registers stored in regstate, the
\* word generateBusRequest builds, the registers client_cart_bus_request
\* reads back from it and the bytes htonll64 gives for the socket.
Encode(kyOne, ctOne, fmOne) ==
  /\ lastCall' = Encoded(kyOne, ctOne, fmOne,
                         generateBusRequest(
                           [kyOne |-> kyOne % 256, ctOne |-> ctOne % 65536,
                            fmOne |-> fmOne % 65536, rt |-> 0]))
  /\ UNCHANGED <<power, driverVars, cacheVars, ctlVars, busLog, powerLog,
                 ghostVars>>

\* ------------------------------------------------------------ the driver
\* cart_poweron whose exchange number failAt fails.
PowerOnDone(r) ==
  /\ Commit(r)
  /\ cacheAlloc' = r.alloc
  /\ power' = IF r.ret = 0 THEN "on" ELSE "failed"
  /\ powerLog' = r.bus.log
  /\ lastCall' = Call("poweron", 0, 0, r.ret, <<>>)

PowerOn(failAt) ==
  /\ power = "off"
  /\ ~cacheAlloc
  /\ failAt <= 2 * CART_MAX_CARTRIDGES + 1
  /\ PowerOnDone(cart_poweron(Machine(failAt)))
  /\ UNCHANGED ghostVars

\* cart_poweroff whose exchange number failAt fails.
PowerOffDone(r) ==
  /\ Commit(r)
  /\ cacheAlloc' = r.alloc
  /\ power' = IF r.fault THEN "fault" ELSE "down"
  /\ powerLog' = IF r.fault THEN powerLog ELSE powerLog \o r.bus.log
  /\ lastCall' = Call("poweroff", 0, 0, r.ret, <<>>)

PowerOff(failAt) ==
  /\ power = "on"
  /\ failAt <= 1
  /\ PowerOffDone(cart_poweroff(Machine(failAt)))
  /\ UNCHANGED ghostVars

\* cart_open(path) while the table holds at most maxFiles records; tail is
\* what follows the bytes of the name the call may store.
OpenDone(path, maxFiles, r) ==
  /\ Len(r.fs) <= maxFiles
  /\ filesystem' = r.fs
  /\ fileSystemSize' = r.size
  /\ busLog' = <<>>
  /\ lastCall' = Call("open", path, 0, r.ret, <<>>)
  /\ held' = IF r.ret >= 1
             THEN held \cup {[h |-> r.ret, name |-> path]} ELSE held

Open(path, tail, maxFiles) ==
  /\ power = "on"
  /\ OpenDone(path, maxFiles,
              cart_open(filesystem, fileSystemSize, path, tail))
  /\ trip' = NoTrip
  /\ UNCHANGED <<power, currentlyLoadedCartridge, nextFrame, nextCartridge,
                 cacheVars, ctlVars, powerLog, recency>>

\* A call made with no file ever opened reads filesystem[0] through the
\* NULL pointer.
NullScan(op, arg1, arg2) ==
  /\ filesystem = <<>>
  /\ power' = "fault"
  /\ busLog' = <<>>
  /\ lastCall' = Call(op, arg1, arg2, -1, <<>>)
  /\ UNCHANGED <<driverVars, cacheVars, ctlVars, powerLog, ghostVars>>

CloseDone(fd, r) ==
  /\ filesystem' = r.fs
  /\ busLog' = <<>>
  /\ lastCall' = Call("close", fd, 0, r.ret, <<>>)
  /\ held' = IF r.ret = 0 THEN {x \in held : x.h # fd} ELSE held

Close(fd) ==
  /\ power = "on"
  /\ \/ NullScan("close", fd, 0)
     \/ /\ filesystem # <<>>
        /\ CloseDone(fd, cart_close(filesystem, fileSystemSize, fd))
        /\ trip' = NoTrip
        /\ UNCHANGED <<power, fileSystemSize, currentlyLoadedCartridge,
                       nextFrame, nextCartridge, cacheVars, ctlVars,
                       powerLog, recency>>

SeekDone(fd, loc, r) ==
  /\ filesystem' = r.fs
  /\ busLog' = <<>>
  /\ lastCall' = Call("seek", fd, loc, r.ret, <<>>)
  /\ trip' = IF trip.stage = 1 /\ trip.fd = fd /\ loc = 0 /\ r.ret = 0
             THEN [trip EXCEPT !.stage = 2] ELSE NoTrip

Seek(fd, loc) ==
  /\ power = "on"
  /\ \/ NullScan("seek", fd, loc)
     \/ /\ filesystem # <<>>
        /\ SeekDone(fd, loc, cart_seek(filesystem, fileSystemSize, fd, loc))
        /\ UNCHANGED <<power, fileSystemSize, currentlyLoadedCartridge,
                       nextFrame, nextCartridge, cacheVars, ctlVars,
                       powerLog, held, recency>>

\* Whether fd names an open file, and the record it names.
Valid(fd) ==
  /\ filesystem # <<>>
  /\ FindHandle(filesystem, fileSystemSize, fd) # 0
  /\ fd # 0

FileOf(fd) == filesystem[FindHandle(filesystem, fileSystemSize, fd)]

\* The slots taken from the frontier so far.
SlotsTaken == nextCartridge * CART_FRAME_SIZE + nextFrame

\* The values a call may meet where it reads storage nothing assigned: one
\* choice where the call reads none.
GarbageFor(ints, slots, nuls, crashes) ==
  [int : ints, slot : slots, nul : nuls, crash : crashes]

ReadGarbage(fd, count) ==
  IF ~Valid(fd)
  THEN GarbageFor({0}, {<<0, 0>>}, {FALSE}, {FALSE})
  ELSE LET file == FileOf(fd)
           past == (file.filePointer + count) \div CART_FRAME_SIZE
                     >= Len(file.occupiedFrames)
       IN GarbageFor(IF file.locInit THEN {0} ELSE GarbageInts,
                     IF file.locInit /\ ~past THEN {<<0, 0>>}
                     ELSE GarbageSlots,
                     {FALSE}, {FALSE})

\* The choices for the undetermined bytes a call has met.
Nuls(r) == IF r.indet THEN BOOLEAN ELSE {FALSE}

\* cart_read(fd, buf, count) whose exchange number failAt fails.
ReadDone(fd, count, r) ==
  /\ Commit(r)
  /\ power' = IF r.fault THEN "fault" ELSE power
  /\ lastCall' = Call("read", fd, count, r.ret, r.out)

\* r0 is the call with no failed exchange and no undetermined byte taken
\* for a zero byte: it tells which exchanges there are to fail and whether
\* there is such a byte.
ReadTry(fd, count, failAt, g, r0) ==
  /\ failAt <= Len(r0.bus.log)
  /\ \E nul \in Nuls(r0) :
       ReadDone(fd, count,
                IF failAt = 0 /\ ~nul THEN r0
                ELSE cart_read(Machine(failAt), fd, count,
                               [g EXCEPT !.nul = nul]))

Read(fd, count, failAt) ==
  /\ power = "on"
  /\ \E g \in ReadGarbage(fd, count) :
       ReadTry(fd, count, failAt, g, cart_read(Machine(0), fd, count, g))
  /\ trip' = IF trip.stage = 2 /\ trip.fd = fd /\ count = Len(trip.buf)
                /\ failAt = 0
             THEN [trip EXCEPT !.stage = 3] ELSE NoTrip
  /\ UNCHANGED <<cacheAlloc, powerLog, held, recency>>

WriteGarbage(fd, count) ==
  IF ~Valid(fd)
  THEN GarbageFor({0}, {<<0, 0>>}, {FALSE}, {FALSE})
  ELSE LET file == FileOf(fd)
           fp == file.filePointer
           grows == fp + count > (file.frames + 1) * CART_FRAME_SIZE
           have == Len(file.occupiedFrames) + (IF grows THEN 1 ELSE 0)
           end == EndFrameIndex(fp, count)
           past == file.length > 0 /\ end >= have
           over == IF file.length = 0 THEN count > CART_FRAME_SIZE
                   ELSE fp + count > (end + 1) * CART_FRAME_SIZE
       IN GarbageFor({0},
                     IF past THEN GarbageSlots ELSE {<<0, 0>>},
                     {FALSE},
                     IF over THEN BOOLEAN ELSE {FALSE})

\* Whether the write takes a slot from the frontier.
Allocates(fd, count) ==
  /\ Valid(fd)
  /\ \/ FileOf(fd).length = 0
     \/ FileOf(fd).filePointer + count
          > (FileOf(fd).frames + 1) * CART_FRAME_SIZE

\* cart_write(fd, buf, count) whose exchange number failAt fails.
WriteDone(fd, buf, count, r) ==
  /\ Commit(r)
  /\ power' = IF r.fault THEN "fault" ELSE power
  /\ lastCall' = [Call("write", fd, count, r.ret, <<>>) EXCEPT !.buf = buf]
  /\ trip' = IF /\ Valid(fd)
                /\ FileOf(fd).length = 0
                /\ FileOf(fd).filePointer = 0
                /\ count \in 1..CART_FRAME_SIZE
                /\ r.ret = count
             THEN [stage |-> 1, fd |-> fd, buf |-> buf]
             ELSE NoTrip

WriteTry(fd, buf, count, failAt, g, r0) ==
  /\ failAt <= Len(r0.bus.log)
  /\ \E nul \in Nuls(r0) :
       WriteDone(fd, buf, count,
                 IF failAt = 0 /\ ~nul THEN r0
                 ELSE cart_write(Machine(failAt), fd, buf, count,
                                 [g EXCEPT !.nul = nul]))

Write(fd, buf, count, failAt) ==
  /\ power = "on"
  /\ Allocates(fd, count) => SlotsTaken < MaxSlots
  /\ \E g \in WriteGarbage(fd, count) :
       WriteTry(fd, buf, count, failAt, g,
                cart_write(Machine(0), fd, buf, count, g))
  /\ UNCHANGED <<cacheAlloc, powerLog, held, recency>>

\* --------------------------------------------------------- specifications
\* The driver with one file: every operation, on a controller that refuses
\* only the requests its rules refuse.
OneName == <<1>>

Next ==
  \/ \E n \in 0..MaxSlots : SetCacheSize(n)
  \/ PowerOn(0)
  \/ PowerOff(0)
  \/ \E tail \in Tails : Open(OneName, tail, 1)
  \/ Close(1)
  \/ \E loc \in 0..MaxLength : Seek(1, loc)
  \/ \E count \in Counts : Read(1, count, 0)
  \/ \E count \in Counts : \E buf \in SeqsOfLen(count) : Write(1, buf, count, 0)

Spec == Init /\ [][Next]_vars

\* The table of files: several names, opened and closed in any order, and
\* the power cycle, with exchanges that may fail.
NextFiles ==
  \/ \E failAt \in 0..(2 * CART_MAX_CARTRIDGES + 1) : PowerOn(failAt)
  \/ \E failAt \in 0..1 : PowerOff(failAt)
  \/ \E path \in Paths, tail \in Tails : Open(path, tail, MaxFiles)
  \/ \E fd \in Fds : Close(fd)
  \/ \E fd \in Fds, loc \in 0..1 : Seek(fd, loc)

SpecFiles == Init /\ [][NextFiles]_vars

\* The cache used alone, as its own interface allows.
NextCache ==
  \/ \E n \in 0..MaxCache : SetCacheSize(n)
  \/ CacheInit
  \/ \E key \in CacheKeys, buf \in CachePayloads : CachePut(key, buf)
  \/ \E key \in CacheKeys : CacheGet(key)

SpecCache == Init /\ [][NextCache]_vars

\* The codec applied to register values.
NextCodec ==
  \E kyOne \in CodecKeys, ctOne \in CodecCarts, fmOne \in CodecFrames :
    Encode(kyOne, ctOne, fmOne)

SpecCodec == Init /\ [][NextCodec]_vars

\* Two files written in turn, with the cache left at capacity 0: the slots
\* the writes take from the frontier.  Seeks go to offset 1, closes and
\* opens bring the cursor back to 0.
SlotFds == 1..2
Ones(count) == [k \in 1..count |-> 1]

NextSlots ==
  \/ PowerOn(0)
  \/ \E path \in Paths : Open(path, <<>>, 2)
  \/ \E fd \in SlotFds : Close(fd)
  \/ \E fd \in SlotFds : Seek(fd, 1)
  \/ \E fd \in SlotFds, count \in Counts : Write(fd, Ones(count), count, 0)

SpecSlots == Init /\ [][NextSlots]_vars

\* The driver with two files that grow frame by frame until the frontier
\* has passed the last cartridge: writes and reads of whole frames at frame
\* boundaries, no cache (capacity 0).
MaxTaken == CART_MAX_CARTRIDGES * CART_FRAME_SIZE + 1

FrameStarts == {k * CART_FRAME_SIZE : k \in 0..MaxTaken}

\* cart_write of one frame of ones, while the frontier has slots to give or
\* the write takes none.
WriteFrame(fd) ==
  /\ power = "on"
  /\ Allocates(fd, CART_FRAME_SIZE) => SlotsTaken < MaxTaken
  /\ \E g \in WriteGarbage(fd, CART_FRAME_SIZE) :
       WriteTry(fd, Ones(CART_FRAME_SIZE), CART_FRAME_SIZE, 0, g,
                cart_write(Machine(0), fd, Ones(CART_FRAME_SIZE),
                           CART_FRAME_SIZE, g))
  /\ UNCHANGED <<cacheAlloc, powerLog, held, recency>>

NextFrontier ==
  \/ PowerOn(0)
  \/ \E path \in Paths : Open(path, <<>>, 2)
  \/ \E fd \in SlotFds, loc \in FrameStarts : Seek(fd, loc)
  \/ \E fd \in SlotFds : Read(fd, CART_FRAME_SIZE, 0)
  \/ \E fd \in SlotFds : WriteFrame(fd)

SpecFrontier == Init /\ [][NextFrontier]_vars

\* The cache alone, closed and initialized again.
CycleSizes == 0..2
CycleKeys == {<<0, 0>>, <<1, 0>>}

NextCycle ==
  \/ \E n \in CycleSizes : SetCacheSize(n)
  \/ CacheInit
  \/ \E key \in CycleKeys : CachePut(key, Ones(CART_FRAME_SIZE))
  \/ \E key \in CycleKeys : CacheGet(key)
  \/ CacheClose

SpecCycle == Init /\ [][NextCycle]_vars

\* The driver with one file and no cache, where any exchange of a write may
\* be answered with a non-zero return code.  A write makes at most a LOAD and
\* a READ, then a LOAD and a WRITE, for each frame it works on.
MaxExchanges == 4 * MaxSlots

NextFail ==
  \/ PowerOn(0)
  \/ Open(OneName, <<>>, 1)
  \/ \E loc \in 0..MaxLength : Seek(1, loc)
  \/ \E count \in Counts, failAt \in 0..MaxExchanges :
       Write(1, Ones(count), count, failAt)

SpecFail == Init /\ [][NextFail]_vars

\* The driver powered off and on again.  cart_poweroff frees the records and
\* the table and leaves filesystem, fileSystemSize and the frontier as they
\* are; filesystem keeps what the freed storage held.
PowerOnAgainDone(r) ==
  /\ Commit(r)
  /\ cacheAlloc' = r.alloc
  /\ power' = "again"
  /\ powerLog' = powerLog \o r.bus.log
  /\ lastCall' = Call("poweron", 0, 0, r.ret, <<>>)

\* cart_poweron after a cart_poweroff that returned 0.
PowerOnAgain ==
  /\ power = "down"
  /\ ~cacheAlloc
  /\ \E ent \in Allocated(CacheOf(myMaxFrames, numberOfUnoccupiedFrames,
                                  myCache)) :
       PowerOnAgainDone([cart_poweron(Machine(0)) EXCEPT !.cache.ent = ent])
  /\ held' = {}
  /\ UNCHANGED <<trip, recency>>

\* cart_open once the table was freed: filesystem is not NULL, so the call
\* reads and writes the freed records.  It ends in a memory fault, or it
\* finds the storage as cart_poweroff left it.
OpenReleased(path) ==
  /\ power = "again"
  /\ \/ /\ power' = "fault"
        /\ busLog' = <<>>
        /\ lastCall' = Call("open", path, 0, -1, <<>>)
        /\ UNCHANGED <<driverVars, held>>
     \/ /\ OpenDone(path, 2,
                    cart_open(filesystem, fileSystemSize, path, <<>>))
        /\ UNCHANGED <<power, currentlyLoadedCartridge, nextFrame,
                       nextCartridge>>
  /\ trip' = NoTrip
  /\ UNCHANGED <<cacheVars, ctlVars, powerLog, recency>>

NextPower ==
  \/ PowerOn(0)
  \/ \E path \in Paths : Open(path, <<>>, 2)
  \/ \E fd \in SlotFds : WriteFrame(fd)
  \/ PowerOff(0)
  \/ PowerOnAgain
  \/ \E path \in Paths : OpenReleased(path)

SpecPower == Init /\ [][NextPower]_vars

\* ------------------------------------------------------------ properties
\* The indices of the cache entries that hold a frame.
Occupied == {i \in DOMAIN myCache : i >= numberOfUnoccupiedFrames}

Priorities == {myCache[i].priority : i \in Occupied}

DistinctPriorities ==
  \A i, j \in Occupied : i # j => myCache[i].priority # myCache[j].priority

KeyAt(i) == <<myCache[i].cartridge, myCache[i].frame>>

LastKeyEntries == {i \in Occupied : KeyAt(i) = lastCall.arg1}

Succeeded == lastCall.op \in {"put", "get"} /\ lastCall.ret = 0

C4_Eviction ==
  [][(/\ lastCall'.op = "put"
      /\ cacheAlloc
      /\ myMaxFrames >= 1
      /\ numberOfUnoccupiedFrames = 0
      /\ \A i \in Occupied : KeyAt(i) # lastCall'.arg1)
     => LET victims == {i \in Occupied : myCache[i].priority = myMaxFrames}
        IN /\ lastCall'.ret = 0
           /\ Cardinality(victims) = 1
           /\ \A v \in victims :
                /\ KeyAt(v) = recency[Len(recency)]
                /\ myCache'[v] = [frame |-> lastCall'.arg1[2],
                                  cartridge |-> lastCall'.arg1[1],
                                  cache |-> lastCall'.arg2,
                                  priority |-> 1]
                /\ \A i \in Occupied \ {v} :
                     /\ myCache'[i].frame = myCache[i].frame
                     /\ myCache'[i].cartridge = myCache[i].cartridge
                     /\ myCache'[i].cache = myCache[i].cache
           /\ numberOfUnoccupiedFrames' = 0]_vars

\* A cache of capacity 2 that was filled with A = (0,0) and B = (1,0) right
\* after the put of C = (2,0): it holds B and C.
C4_Witness ==
  /\ myMaxFrames = 2
  /\ lastCall.op = "put"
  /\ lastCall.ret = 0
  /\ lastCall.arg1 = <<2, 0>>
  /\ recency = <<<<2, 0>>, <<1, 0>>>>
  /\ {KeyAt(i) : i \in Occupied} = {<<1, 0>>, <<2, 0>>}
  /\ \E i \in Occupied : KeyAt(i) = <<2, 0>> /\ myCache[i].priority = 1

\* The records stored under a name.
Named(fs, path) == {i \in 1..Len(fs) : fs[i].fileName = path}

\* C5: open(name) of an existing closed file returns a handle h >= 1, and
\* afterwards the record named name is open with handle h and cursor 0.
C5_ReopenBindsName ==
  [][(/\ lastCall'.op = "open"
      /\ Named(filesystem, lastCall'.arg1) # {}
      /\ \A i \in Named(filesystem, lastCall'.arg1) :
           filesystem[i].fileHandle = 0)
     => /\ lastCall'.ret >= 1
        /\ \E j \in Named(filesystem', lastCall'.arg1) :
             /\ filesystem'[j].fileHandle = lastCall'.ret
             /\ filesystem'[j].filePointer = 0]_vars

\* The operations of the exchanges of a log.
OpsOf(log) == [k \in 1..Len(log) |-> log[k].op]

RECURSIVE LoadZeroPairs(_)
LoadZeroPairs(n) == IF n = 0 THEN <<>> ELSE <<2, 1>> \o LoadZeroPairs(n - 1)

\* C6: poweron() then poweroff(), with no file ever opened and every
\* exchange answered with ret = 0, return 0 and 0, issue INIT, a (LOAD, ZERO)
\* pair for each cartridge and POWEROFF, in that order, and reach no fault
\* state.
C6_PowerCycle ==
  (/\ lastCall.op = "poweroff"
   /\ filesystem = <<>>
   /\ \A k \in 1..Len(powerLog) : powerLog[k].rt = 0)
  => /\ lastCall.ret = 0
     /\ power = "down"
     /\ OpsOf(powerLog)
          = <<0>> \o LoadZeroPairs(CART_MAX_CARTRIDGES) \o <<5>>

\* C1: write(h, buf, n), 1 <= n <= CART_FRAME_SIZE, to an open file of
\* length 0, then seek(h, 0), then read(h, out, n): the read returns n and
\* out holds the bytes of buf; checked with a cache of capacity 1 or more,
\* where the read finds the frame in the cache.
C1_RoundTrip ==
  (/\ trip.stage = 3
   /\ myMaxFrames >= 1)
  => /\ lastCall.ret = Len(trip.buf)
     /\ lastCall.out = trip.buf

C8_SeekBounds ==
  [][(/\ lastCall'.op = "seek"
      /\ Valid(lastCall'.arg1))
     => LET i == FindHandle(filesystem, fileSystemSize, lastCall'.arg1)
            loc == lastCall'.arg2
        IN /\ UNCHANGED <<power, fileSystemSize, currentlyLoadedCartridge,
                          nextFrame, nextCartridge, cacheVars, ctlVars>>
           /\ IF loc > filesystem[i].length
              THEN /\ lastCall'.ret = -1
                   /\ filesystem' = filesystem
              ELSE /\ lastCall'.ret = 0
                   /\ filesystem' =
                        [filesystem EXCEPT ![i].filePointer = loc]]_vars

\* A refused seek past the end of a file that holds bytes, the cursor not
\* at 0.
C8_Witness ==
  /\ lastCall.op = "seek"
  /\ lastCall.ret = -1
  /\ Valid(lastCall.arg1)
  /\ lastCall.arg2 > FileOf(lastCall.arg1).length
  /\ FileOf(lastCall.arg1).length > 0
  /\ FileOf(lastCall.arg1).filePointer > 0

\* The records that are open.
OpenRecords == {i \in 1..Len(filesystem) : filesystem[i].fileHandle > 0}

\* C9: no two open records hold the same handle, and a handle open returns
\* is at least 1.
C9_HandlesUnique ==
  /\ \A i, j \in OpenRecords :
       i # j => filesystem[i].fileHandle # filesystem[j].fileHandle
  /\ (lastCall.op = "open" /\ lastCall.ret # -1) => lastCall.ret >= 1

\* An open that returned a handle used before, with two files open and one
\* closed.
C9_Witness ==
  /\ lastCall.op = "open"
  /\ lastCall.ret = 1
  /\ Cardinality(OpenRecords) = 2
  /\ Len(filesystem) = 3

\* C10: open(name) while name is open (open returned a handle for it that
\* was not closed since) returns -1 and changes no record; checked where a
\* NUL byte follows every stored name, so that strcmp compares the names.
C10_OpenBusy ==
  [][(/\ lastCall'.op = "open"
      /\ \A i \in 1..Len(filesystem) : filesystem[i].tail = <<>>
      /\ \E x \in held : x.name = lastCall'.arg1)
     => /\ lastCall'.ret = -1
        /\ filesystem' = filesystem]_vars

\* The handles of the files that are open: open returned them and no close
\* took them back.
HeldHandles == {x.h : x \in held}

\* C11: after poweron, also before any file was opened, a close, read, write
\* or seek with a handle of no open file returns -1 (the call comes back,
\* it does not end in a memory fault), issues no bus exchange and leaves the
\* records, the frontier and the cache as they were.
C11_BadHandle ==
  [][(/\ power = "on"
      /\ lastCall'.op \in {"close", "read", "write", "seek"}
      /\ lastCall'.arg1 \notin HeldHandles)
     => /\ power' = "on"
        /\ lastCall'.ret = -1
        /\ busLog' = <<>>
        /\ UNCHANGED <<filesystem, fileSystemSize, nextFrame, nextCartridge,
                       myMaxFrames, numberOfUnoccupiedFrames, myCache>>]_vars

\* C12: whatever open, close, seek, read and write calls were made (counts
\* of 0 and more), every record has 0 <= filePointer <= length.
C12_CursorInLength ==
  \A i \in 1..Len(filesystem) :
    /\ 0 <= filesystem[i].filePointer
    /\ filesystem[i].filePointer <= filesystem[i].length

\* A write at the end of a file that holds bytes already: it extended the
\* file and left the cursor at the new end.
C12_Witness ==
  /\ lastCall.op = "write"
  /\ lastCall.ret = lastCall.arg2
  /\ lastCall.arg2 >= 1
  /\ Valid(lastCall.arg1)
  /\ FileOf(lastCall.arg1).length > lastCall.arg2
  /\ FileOf(lastCall.arg1).filePointer = FileOf(lastCall.arg1).length

\* The number of entries of the slot list of a record: none before the
\* first write assigns location.
SlotCount(file) == IF file.locInit THEN Len(file.occupiedFrames) ELSE 0

\* The slot list has ceil(length / CART_FRAME_SIZE) entries, and one at
\* least once a write was made.
SlotCountFits(file) ==
  IF file.locInit
  THEN SlotCount(file)
         = (IF file.length = 0 THEN 1
            ELSE (file.length + CART_FRAME_SIZE - 1) \div CART_FRAME_SIZE)
  ELSE file.length = 0

\* C13: a write that succeeds (any cursor, any count of 0 and more) on a
\* file whose slot list has ceil(length / CART_FRAME_SIZE) entries leaves
\* it with ceil(length / CART_FRAME_SIZE) entries for the new length, one
\* at least; a file never written has length 0 and no entry.
C13_SlotCount ==
  [][(/\ lastCall'.op = "write"
      /\ Valid(lastCall'.arg1)
      /\ lastCall'.ret = lastCall'.arg2
      /\ power' = "on"
      /\ SlotCountFits(FileOf(lastCall'.arg1)))
     => /\ SlotCountFits(
             filesystem'[FindHandle(filesystem, fileSystemSize,
                                    lastCall'.arg1)])
        /\ SlotCount(
             filesystem'[FindHandle(filesystem, fileSystemSize,
                                    lastCall'.arg1)]) >= 1]_vars

\* The places of the slot lists: record i, entry k.
SlotPlaces ==
  {<<i, k>> \in (1..Len(filesystem)) \X (1..(MaxSlots + 1)) :
     filesystem[i].locInit /\ k <= Len(filesystem[i].occupiedFrames)}

SlotIn(p) ==
  <<filesystem[p[1]].occupiedCartridges[p[2]],
    filesystem[p[1]].occupiedFrames[p[2]]>>

\* C14: whatever writes were made to whatever files, no two entries of the
\* slot lists, of one file or of two, hold the same (cartridge, frame).
C14_SlotsDistinct ==
  \A p, q \in SlotPlaces : p # q => SlotIn(p) # SlotIn(q)

\* Two files that hold one slot each, the second written last.
C14_Witness ==
  /\ lastCall.op = "write"
  /\ lastCall.ret >= 1
  /\ Len(filesystem) = 2
  /\ filesystem[1].locInit
  /\ filesystem[2].locInit
  /\ filesystem[1].length >= 1
  /\ filesystem[2].length >= 1

\* One file that holds two slots.
C14_WitnessOneFile ==
  \E i \in 1..Len(filesystem) :
    filesystem[i].locInit /\ Len(filesystem[i].occupiedFrames) = 2

\* The LOAD exchanges of a log that were answered with ret = 0.
LoadsDone(log) == {k \in 1..Len(log) : log[k].op = 2 /\ log[k].rt = 0}

\* The cartridge of the last of them.
LastLoaded(log) ==
  log[CHOOSE k \in LoadsDone(log) : \A j \in LoadsDone(log) : j <= k].cart

\* C15: in every state, also after a poweron that a non-zero ret ended
\* part-way, currentlyLoadedCartridge is the cartridge of the last LOAD
\* answered with ret = 0.  Where only poweron and poweroff use the bus,
\* powerLog holds every exchange made so far.
C15_LoadedCartridge ==
  LoadsDone(powerLog) # {} =>
    currentlyLoadedCartridge = LastLoaded(powerLog)

\* The keys of the frames the cache holds.
CachedKeys == {KeyAt(i) : i \in Occupied}

\* The indices into the slot list that a read of count bytes at the cursor
\* of file goes through.
NeededSlots(file, count) ==
  {file.filePointer \div CART_FRAME_SIZE + i :
     i \in 0..Min((file.filePointer + count) \div CART_FRAME_SIZE
                    - file.filePointer \div CART_FRAME_SIZE,
                  file.frames)}

C17_KeysUnique ==
  cacheAlloc => \A i, j \in Occupied : i # j => KeyAt(i) # KeyAt(j)

\* A put of a key that the cache held already, in a cache with room left
\* and another entry filled after it: the entry of the key holds the new
\* payload.
C17_Witness ==
  /\ lastCall.op = "put"
  /\ lastCall.ret = 0
  /\ numberOfUnoccupiedFrames >= 1
  /\ \E i \in Occupied :
       /\ i > numberOfUnoccupiedFrames
       /\ KeyAt(i) = lastCall.arg1
       /\ myCache[i].cache = lastCall.arg2

\* What a record keeps while it is closed and opened again: its name, its
\* length and its slot list.
Kept(file) ==
  <<file.fileName, file.length, file.locInit, file.frames,
    file.occupiedCartridges, file.occupiedFrames>>

\* C18: close(h) and open(name) change the length and the slot list of no
\* record; of the records there were, only fileHandle and filePointer
\* change.
C18_ClosedKeepData ==
  [][lastCall'.op \in {"close", "open"}
     => /\ Len(filesystem') >= Len(filesystem)
        /\ \A i \in 1..Len(filesystem) :
             Kept(filesystem'[i]) = Kept(filesystem[i])]_vars

\* A file that holds bytes, closed and opened again.
C18_Witness ==
  /\ lastCall.op = "open"
  /\ lastCall.ret >= 1
  /\ \E i \in 1..Len(filesystem) :
       /\ filesystem[i].fileName = lastCall.arg1
       /\ filesystem[i].fileHandle = lastCall.ret
       /\ filesystem[i].length >= 1
       /\ Len(filesystem[i].occupiedFrames) = 2

\* C19: for an opcode of 0 .. 255, a cartridge and a frame of 0 .. 65535,
\* the registers read back from the word the encoder builds are that opcode,
\* cartridge and frame with ret = 0, and in the word key2 (the second byte)
\* and the reserved bits (the low 15) are zero.
C19_CodecRoundTrip ==
  lastCall.op = "encode" =>
    /\ lastCall.out = lastCall.arg1
    /\ lastCall.ret = 0
    /\ lastCall.arg2[2] = 0
    /\ lastCall.arg2[7] % 128 = 0
    /\ lastCall.arg2[8] = 0

\* The request with every bit of the three registers set.
C19_Witness ==
  /\ lastCall.op = "encode"
  /\ lastCall.arg1 = <<255, 65535, 65535>>
  /\ lastCall.out = <<255, 65535, 65535>>

\* C20, as stated: the request word of opcode 3, cartridge 0x1234, frame
\* 0x5678 is sent as the bytes 03 00 00 09 1A 2B 38 00.
C20_GoldenVector ==
  (lastCall.op = "encode" /\ lastCall.arg1 = <<3, 4660, 22136>>)
  => lastCall.arg2 = <<3, 0, 0, 9, 26, 43, 56, 0>>

\* C20, amended: the request word of opcode 3, cartridge 0x1234, frame
\* 0x5678 is 0x0300091A2B3C0000 and is sent as the bytes
\* 03 00 09 1A 2B 3C 00 00.
C20_GoldenVectorFromLayout ==
  (lastCall.op = "encode" /\ lastCall.arg1 = <<3, 4660, 22136>>)
  => lastCall.arg2 = <<3, 0, 9, 26, 43, 60, 0, 0>>

\* The request of the worked example.
C20_Witness ==
  /\ lastCall.op = "encode"
  /\ lastCall.arg1 = <<3, 4660, 22136>>
  /\ Len(lastCall.arg2) = 8

\* ------------------------------------------------------------ write overlay
\* The values of a call that reads no storage nothing assigned.
NoGarbage == [int |-> 0, slot |-> <<0, 0>>, nul |-> FALSE, crash |-> FALSE]

\* The driver's state after cart_seek(fd, 0).
SoughtToZero(m, fd) == [m EXCEPT !.fs = cart_seek(m.fs, m.size, fd, 0).fs]

\* The bytes cart_seek(fd, 0) and cart_read(fd, out, L) deliver in the
\* driver's state m.
ReadBackIn(m, fd, L) ==
  cart_read(SoughtToZero(m, fd), fd, L, NoGarbage).out

ReadBack(fd) == ReadBackIn(Machine(0), fd, FileOf(fd).length)

\* The driver's state made of the values given.
MachineOf(fs, size, cur, nf, nc, cap, un, ent, loaded, mem) ==
  [fs |-> fs, size |-> size, cur |-> cur, nf |-> nf, nc |-> nc,
   cache |-> CacheOf(cap, un, ent),
   bus |-> BusStart([loaded |-> loaded, mem |-> mem], 0)]

\* The length of the file fd among the records fs.
LengthIn(fs, size, fd) == fs[FindHandle(fs, size, fd)].length

Max(a, b) == IF a > b THEN a ELSE b

\* old with buf laid over the positions p + 1 .. p + Len(buf).
Overlaid(old, p, buf) ==
  [k \in 1..Max(Len(old), p + Len(buf)) |->
     IF k > p /\ k <= p + Len(buf) THEN buf[k - p] ELSE old[k]]

\* Whether the bytes of content are L bytes, none of them undetermined.
Determined(content, L) ==
  /\ Len(content) = L
  /\ \A k \in 1..L : content[k] \in Bytes

\* A write of n >= 1 bytes, returning n, to the open file fd of length
\* L > 0 whose content reads back in full, with at most one slot to add.
OverlayCase(fd) ==
  /\ lastCall'.op = "write"
  /\ lastCall'.arg1 = fd
  /\ Valid(fd)
  /\ FileOf(fd).length > 0
  /\ lastCall'.arg2 >= 1
  /\ lastCall'.ret = lastCall'.arg2
  /\ power' = "on"
  /\ FileOf(fd).filePointer + lastCall'.arg2
       <= (Len(FileOf(fd).occupiedFrames) + 1) * CART_FRAME_SIZE
  /\ Determined(ReadBack(fd), FileOf(fd).length)

\* Whether the file that held old, with length L and cursor p, holds new
\* with length newL after a write of buf.
OverlayHolds(old, L, p, buf, new, newL) ==
  /\ newL = Max(L, p + Len(buf))
  /\ new = Overlaid(old, p, buf)

\* C21: after a write of n >= 1 bytes at cursor p that returned n, to an open
\* file of length L > 0, with at most one slot to add, the length is
\* max(L, p + n) and seek(h, 0) followed by a read of the whole length
\* delivers the old content with buf laid over [p, p + n).
C21_WriteOverlay ==
  [][\A fd \in Fds :
       OverlayCase(fd)
       => OverlayHolds(ReadBack(fd), FileOf(fd).length,
                       FileOf(fd).filePointer, lastCall'.buf,
                       ReadBackIn(MachineOf(filesystem', fileSystemSize',
                                            currentlyLoadedCartridge',
                                            nextFrame', nextCartridge',
                                            myMaxFrames',
                                            numberOfUnoccupiedFrames',
                                            myCache', ctlLoaded', ctlMem'),
                                  fd,
                                  LengthIn(filesystem', fileSystemSize', fd)),
                       LengthIn(filesystem', fileSystemSize', fd))]_vars

\* ------------------------------------------------------- read and the slots
\* The indices i + startFrameIndex at which cart_read looks into
\* location.occupiedCartridges and location.occupiedFrames.
ReadLookups(file, count, g) ==
  {file.filePointer \div CART_FRAME_SIZE + i :
     i \in 0..LastFetched(file, count, g)}

\* C22: a read of an open file, whatever its cursor and count and whether
\* or not it has a slot, looks up only indices i of its slot list with
\* 0 <= i < the number of slots.
C22_ReadInsideSlots ==
  [][\A fd \in Fds :
       (/\ lastCall'.op = "read"
        /\ lastCall'.arg1 = fd
        /\ Valid(fd))
       => \A g \in ReadGarbage(fd, lastCall'.arg2) :
            \A k \in ReadLookups(FileOf(fd), lastCall'.arg2, g) :
              k >= 0 /\ k < SlotCount(FileOf(fd))]_vars

\* ------------------------------------------------------------ read-through
\* The READ exchanges of the last call that were answered with ret = 0.
ReadsDone(log) == {k \in 1..Len(log) : log[k].op = 3 /\ log[k].rt = 0}

\* The (cartridge, frame) of exchange k: the frame asked for, in the
\* cartridge loaded when it was asked for.
FrameRead(log, k) == <<log[k].loaded, log[k].frame>>

\* C23: after a read of a file that has been written, that returned 0 or
\* more with a cache of capacity 1 or more, the frame of the last READ
\* exchange the read made is in the cache.
C23_ReadThrough ==
  (/\ lastCall.op = "read"
   /\ lastCall.ret >= 0
   /\ Valid(lastCall.arg1)
   /\ FileOf(lastCall.arg1).locInit
   /\ power = "on"
   /\ myMaxFrames >= 1
   /\ ReadsDone(busLog) # {})
  => \A k \in ReadsDone(busLog) :
       (\A j \in ReadsDone(busLog) : j <= k)
       => FrameRead(busLog, k) \in CachedKeys

\* ------------------------------------------------------------ LOAD ordering
\* The READ and WRITE exchanges of a log.
Transfers(log) == {k \in 1..Len(log) : log[k].op \in {3, 4}}

\* C24: every READ or WRITE exchange issued for a slot (c, f) reaches the
\* controller while c is the cartridge it has loaded, whatever reads and
\* writes of files with slots in different cartridges came before.
C24_LoadOrdering ==
  \A k \in Transfers(busLog) : busLog[k].loaded = busLog[k].want

\* A read that issued LOAD 0 and READ for a frame of cartridge 0 of a file
\* that holds slots of cartridges 0 and 1, cartridge 1 loaded before.
C24_Witness ==
  /\ lastCall.op = "read"
  /\ lastCall.ret = CART_FRAME_SIZE
  /\ Valid(lastCall.arg1)
  /\ {0, 1} \subseteq {FileOf(lastCall.arg1).occupiedCartridges[k] :
                        k \in 1..Len(FileOf(lastCall.arg1).occupiedCartridges)}
  /\ Len(busLog) >= 2
  /\ busLog[1].op = 2
  /\ busLog[1].cart = 0
  /\ busLog[1].loaded = 1
  /\ busLog[2].op = 3
  /\ busLog[2].want = 0

\* ----------------------------------------------------------------- poweroff
\* C25: a poweroff that comes back, whether the POWEROFF exchange was
\* answered with ret = 0 or not, has released the storage of the cache; it
\* returns -1 when the exchange failed.
C25_PoweroffReleasesCache ==
  (lastCall.op = "poweroff" /\ power = "down")
  => /\ ~cacheAlloc
     /\ (\E k \in 1..Len(busLog) : busLog[k].op = 5 /\ busLog[k].rt # 0)
          => lastCall.ret = -1

\* ------------------------------------------------------------ WRITE payload
\* The WRITE exchanges of a log that were answered with ret = 0.
WritesDone(log) == {k \in 1..Len(log) : log[k].op = 4 /\ log[k].rt = 0}

\* The frame the cache holds under a key.
CachedFrame(key) ==
  myCache[CHOOSE i \in Occupied : KeyAt(i) = key].cache

\* C26: the FRAME_SIZE bytes that follow the request word of a WRITE are
\* the bytes of the caller's payload buffer.  The controller stores the
\* bytes it received in the frame, and cart_write hands the same buffer to
\* put_cart_cache first: after a write that succeeded, the frame of its
\* last WRITE exchange holds on the controller the bytes the cache holds
\* for it, where those are all determined.
C26_WritePayload ==
  (/\ lastCall.op = "write"
   /\ lastCall.ret >= 0
   /\ power = "on"
   /\ myMaxFrames >= 1)
  => \A k \in WritesDone(busLog) :
       (/\ \A j \in WritesDone(busLog) : j <= k
        /\ \A x \in 1..CART_FRAME_SIZE :
             CachedFrame(<<busLog[k].want, busLog[k].frame>>)[x] \in Bytes)
       => ctlMem[busLog[k].want][busLog[k].frame]
            = CachedFrame(<<busLog[k].want, busLog[k].frame>>)

\* -------------------------------------------------------------- slot bounds
\* The (cartridge, frame) pairs of the slot list of a record.
SlotsOf(file) ==
  IF file.locInit
  THEN {<<file.occupiedCartridges[k], file.occupiedFrames[k]>> :
          k \in 1..Len(file.occupiedFrames)}
  ELSE {}

\* C27: every (cartridge, frame) stored in a slot list, or sent by a write
\* in a LOAD, READ or WRITE exchange, has 0 <= cartridge <
\* CART_MAX_CARTRIDGES and 0 <= frame < the frames of a cartridge, also once
\* every slot is taken: a write that needs a slot then stores none.
C27_SlotBounds ==
  /\ \A i \in 1..Len(filesystem) :
       \A slot \in SlotsOf(filesystem[i]) :
         slot[1] \in CtlCarts /\ slot[2] \in CtlFrames
  /\ lastCall.op = "write"
     => \A k \in 1..Len(busLog) :
          busLog[k].op \in {2, 3, 4}
          => busLog[k].cart \in CtlCarts /\ busLog[k].frame \in CtlFrames

\* --------------------------------------------------------------- cache init
\* Whether a get of the key misses in the cache as it is.
Misses(key) ==
  ~get_cart_cache(CacheOf(myMaxFrames, numberOfUnoccupiedFrames, myCache),
                  key[1], key[2]).found

\* C28: right after init_cart_cache, whatever calls came before it, also a
\* close and an earlier init, no entry is occupied, the number of unoccupied
\* entries is the capacity, and a get of any key misses.
C28_InitEmpties ==
  lastCall.op = "init_cart_cache"
  => /\ numberOfUnoccupiedFrames = myMaxFrames
     /\ Occupied = {}
     /\ \A key \in CacheKeys : Misses(key)

\* ---------------------------------------------------------- LRU equivalence
\* The keys of the occupied entries of the array ent with unocc entries
\* unoccupied, and the frame held under a key.
KeysIn(ent, unocc) ==
  {<<ent[i].cartridge, ent[i].frame>> : i \in {j \in DOMAIN ent : j >= unocc}}

FrameIn(ent, unocc, key) ==
  ent[CHOOSE i \in DOMAIN ent :
        i >= unocc /\ <<ent[i].cartridge, ent[i].frame>> = key].cache

\* The keys of the reference cache: a list of at most myMaxFrames keys, the
\* most recently used first.
ListKeys(list) == {list[n] : n \in 1..Len(list)}

\* C29: for every sequence of puts and gets on a cache of capacity 1 or
\* more, the cache and a least-recently-used list of the same capacity
\* agree: after every call they hold the same keys; a get hits exactly when
\* the list holds the key and delivers the bytes last put under it; a put
\* stores its bytes under its key and changes the bytes of no other key; a
\* put of an absent key into a full cache drops the key that is last in the
\* list, and only that one.
C29_LruEquivalence ==
  [][(/\ cacheAlloc
      /\ myMaxFrames >= 1
      /\ lastCall'.op \in {"put", "get"})
     => /\ KeysIn(myCache', numberOfUnoccupiedFrames') = ListKeys(recency')
        /\ lastCall'.op = "get"
           => /\ (lastCall'.ret = 0) <=> (lastCall'.arg1 \in ListKeys(recency))
              /\ lastCall'.ret = 0
                 => lastCall'.out
                      = FrameIn(myCache, numberOfUnoccupiedFrames,
                                lastCall'.arg1)
              /\ \A key \in ListKeys(recency') :
                   FrameIn(myCache', numberOfUnoccupiedFrames', key)
                     = FrameIn(myCache, numberOfUnoccupiedFrames, key)
        /\ lastCall'.op = "put"
           => /\ lastCall'.ret = 0
              /\ FrameIn(myCache', numberOfUnoccupiedFrames', lastCall'.arg1)
                   = lastCall'.arg2
              /\ \A key \in ListKeys(recency') \ {lastCall'.arg1} :
                   FrameIn(myCache', numberOfUnoccupiedFrames', key)
                     = FrameIn(myCache, numberOfUnoccupiedFrames, key)
              /\ (/\ Len(recency) = myMaxFrames
                  /\ lastCall'.arg1 \notin ListKeys(recency))
                 => KeysIn(myCache, numberOfUnoccupiedFrames)
                      \ KeysIn(myCache', numberOfUnoccupiedFrames')
                      = {recency[Len(recency)]}]_vars

\* A cache of capacity 3 filled with (0,0), (1,0), (2,0), after a get of
\* (0,0) and a put of (3,0): the put dropped (1,0).
C29_Witness ==
  /\ myMaxFrames = 3
  /\ lastCall.op = "put"
  /\ lastCall.ret = 0
  /\ lastCall.arg1 = <<3, 0>>
  /\ recency = << <<3, 0>>, <<0, 0>>, <<2, 0>> >>
  /\ CachedKeys = {<<0, 0>>, <<2, 0>>, <<3, 0>>}

\* ---------------------------------------------------------- cache invariant
\* The indices of the entries of ent a put has filled.
Filled(ent) == {i \in DOMAIN ent : ent[i].cache # <<>>}

\* Whether the array ent of max entries, unocc of them unoccupied, is as
\* the cache keeps it: the entries a put has filled are those at
\* unocc .. max - 1, and their priorities are unocc + 1 .. max, each once.
CacheShape(ent, unocc, max) ==
  /\ unocc \in 0..max
  /\ DOMAIN ent = 0..(max - 1)
  /\ Filled(ent) = unocc..(max - 1)
  /\ {ent[i].priority : i \in Filled(ent)} = (unocc + 1)..max
  /\ \A i, j \in Filled(ent) : i # j => ent[i].priority # ent[j].priority

Refusals(log) == {k \in 1..Len(log) : log[k].rt # 0}

\* C31: a write to an open file that returns -1 because a LOAD, READ or
\* WRITE exchange was answered with a non-zero return code, the first write
\* to the file or a later one, leaves the length and the cursor of the file
\* and the allocation frontier as they were.
C31_FailedWriteKeeps ==
  [][\A fd \in Fds :
       (/\ lastCall'.op = "write"
        /\ lastCall'.arg1 = fd
        /\ Valid(fd)
        /\ lastCall'.ret = -1
        /\ power' = "on"
        /\ Refusals(busLog') # {})
       => /\ LengthIn(filesystem', fileSystemSize', fd) = FileOf(fd).length
          /\ filesystem'[FindHandle(filesystem, fileSystemSize, fd)]
               .filePointer = FileOf(fd).filePointer
          /\ nextFrame' = nextFrame
          /\ nextCartridge' = nextCartridge]_vars

\* ------------------------------------------------------------ write-through
\* C32: in every state with the driver powered on, after whatever calls,
\* also a write that a failed exchange ended, the bytes of every occupied
\* entry (c, f) of the cache, c a cartridge and f a frame of the controller,
\* are the bytes the controller holds for frame f of cartridge c.
C32_WriteThrough ==
  (power = "on" /\ cacheAlloc)
  => \A i \in Occupied :
       (myCache[i].cartridge \in CtlCarts /\ myCache[i].frame \in CtlFrames)
       => ctlMem[myCache[i].cartridge][myCache[i].frame] = myCache[i].cache

\* ---------------------------------------------------- open and other files
\* C33: open(name), whether it creates a record or opens a closed one
\* again, changes no field of a record with another name; checked where a
\* NUL byte follows every stored name, so that strcmp compares the names.
C33_OpenLeavesOthers ==
  [][(/\ lastCall'.op = "open"
      /\ \A i \in 1..Len(filesystem) : filesystem[i].tail = <<>>)
     => /\ Len(filesystem') >= Len(filesystem)
        /\ \A i \in 1..Len(filesystem) :
             filesystem[i].fileName # lastCall'.arg1
             => filesystem'[i] = filesystem[i]]_vars

\* -------------------------------------------------------------- power cycle
\* C34: after poweroff and poweron the table holds no record and the
\* frontier is (0, 0); an open that follows, also of a name used before the
\* poweroff, does not end in a memory fault, returns 1 and leaves one
\* record: an open file of length 0 with that name.
C34_PowerCycleResets ==
  /\ (power = "again" /\ lastCall.op = "poweron")
     => /\ filesystem = <<>>
        /\ nextFrame = 0
        /\ nextCartridge = 0
  /\ (power = "again" /\ lastCall.op = "open")
     => /\ lastCall.ret = 1
        /\ Len(filesystem) = 1
        /\ filesystem[1].fileName = lastCall.arg1
        /\ filesystem[1].fileHandle = 1
        /\ filesystem[1].length = 0
  /\ ~(power = "fault" /\ lastCall.op = "open")

====
